---- MODULE Spec2Model ----
(***************************************************************************)
(* Ephemeral browser-session lifecycle: SessionManager (facade),           *)
(* SessionStore (registry + expiry timers + periodic sweep + the Redis     *)
(* mirror and the load from it after a restart), DockerService (container  *)
(* runtime adapter and its orphan sweep), the handlers of the HTTP API,    *)
(* the proxy and the shutdown of the process.                              *)
(*                                                                         *)
(* Node.js runs every handler on one thread: the code between two awaits   *)
(* is one atomic step, and each await on the runtime is a point where      *)
(* other handlers, timers and requests interleave.  One action below is    *)
(* one such step: the runtime's answer to the awaited call together with   *)
(* the synchronous continuation that follows it.                           *)
(*                                                                         *)
(* Time is counted in abstract ticks (one tick stands for any fixed        *)
(* number of milliseconds).  The id the runtime assigns to the container   *)
(* of create call c is c itself.  A timer callback runs at or after its    *)
(* deadline, never before.  Every request to the runtime may fail.         *)
(***************************************************************************)
EXTENDS Integers, FiniteSets, Sequences, TLC

\* ---- bounds of the model --------------------------------------------------
MaxCalls == 2      \* createSession calls issued (= container ids)
MaxStops == 2      \* stopSession calls issued
MaxTime == 2       \* the clock stops advancing here
MaxDelta == 2      \* largest session duration / extension, in ticks
MaxCeiling == 1    \* largest configured MAX_SESSIONS
MaxUptime == 4     \* the clock of the timed specification stops here
SweepEvery == 2    \* config.sessions.cleanupIntervalMs, in ticks
MaxStrays == 1     \* timers left armed by direct createSession calls over an entry
MsPerSecond == 3   \* ticks in a second of Redis (1000 in the code's milliseconds)

\* ---- program constants ----------------------------------------------------
\* a slip that would allow one more start attempt
maxRetries_oneMore == 3 + 1

maxRetries == 3    \* DockerService.maxRetries

Calls == 1..MaxCalls
Ids == Calls
Stops == 1..MaxStops
ShutdownCall == 0  \* the stopSession calls made by SessionManager.shutdown
Stoppers == Stops \cup {ShutdownCall}
Durations == 1..MaxDelta
Extras == 1..MaxDelta
MaxExpiry == MaxTime + MaxDelta

VARIABLES
    now,          \* Date.now()
    maxSessions,  \* config.sessions.maxSessions
    containers,   \* runtime: id -> "none" | "created" | "running" | "exited" | "dead" | "gone"
    sessions,     \* SessionStore.sessions: Map id -> Session
    cpc,          \* position of each createSession call
    cattempt,     \* startContainerWithRetry: attempt of each call
    spc,          \* position of each stopSession call
    starget,      \* containerId argument of each stopSession call
    teardowns,    \* history: stopSession calls that sent stop/remove for each id
    faulted,      \* history: ids for which the runtime failed a request of stopSession
    sweeping,     \* cleanupExpiredSessions: expired ids still to remove
    endedBy,      \* history: what removed the registry entry of each id
    last,         \* history: the most recent step of the program
    raced,        \* history: ids whose timer fired during a stopSession call
    redis,        \* SessionStore.redis: "null" or "up"
    mirror,       \* the Redis keys session:<id> -> stored session
    restore,      \* loadSessionsFromRedis: position, keys left, pending get
    shutdown,     \* SessionManager.shutdown: position, sessions left to stop
    cleanupInterval, \* SessionStore.cleanupInterval is armed
    removing,     \* removeSession calls made on the registry that await their del
    orphans,      \* cleanupOrphanedContainers: position, listing, removals
    strays,       \* armed expiry timers whose handle no entry of the registry holds
    exited        \* process.exit has been called

vars == <<now, maxSessions, containers, sessions, cpc, cattempt,
          spc, starget, teardowns, faulted, sweeping, endedBy, last,
          raced, redis, mirror, restore, shutdown, cleanupInterval,
          removing, orphans, strays, exited>>

NoId == 0          \* no id; also the id of no container ('non-existent-id')
\* last: the step the program has just taken, when it is the return of an
\* operation (op # "none"); any other step sets it back to NoLast.
NoLast == [op |-> "none", id |-> NoId, ok |-> FALSE, active |-> FALSE,
           old |-> 0, extra |-> 0, counted |-> {},
           containerStopped |-> FALSE, sessionRemoved |-> FALSE,
           status |-> 0, pending |-> FALSE, served |-> FALSE,
           hostPort |-> 0, error |-> "none",
           success |-> FALSE, stopped |-> FALSE, ttl |-> 0]

\* ---- SessionStore: pure parts ---------------------------------------------

\* The userId given with createSession call c: each call comes from a user
\* of its own.
UserOf(c) == c

\* Session record as built by SessionStore.createSession; timer = TRUE is an
\* armed setTimeout whose deadline is expiresAt; createdBy is
\* metadata.createdBy (metadata.createdAt, a date string that nothing
\* reads, is left out).
NewSession(containerId, hostPort, durationMs, userId, t) ==
    [containerId |-> containerId, hostPort |-> hostPort,
     expiresAt |-> t + durationMs, timer |-> TRUE,
     userId |-> userId, createdBy |-> userId]

getActiveSessionsCount(S) == Cardinality(DOMAIN S)

mapSet(S, id, rec) == [i \in (DOMAIN S) \cup {id} |-> IF i = id THEN rec ELSE S[i]]

mapDelete(S, id) == [i \in (DOMAIN S) \ {id} |-> S[i]]

\* a slip that would clear the timer and leave the entry
removeSession_timerOnly(S, id) ==
    IF id \in DOMAIN S THEN mapSet(S, id, [S[id] EXCEPT !.timer = FALSE]) ELSE S

\* SessionStore.removeSession: the registry after the call
removeSession(S, id) == IF id \in DOMAIN S THEN mapDelete(S, id) ELSE S

\* a slip that would answer true for an id that is not there
removeSessionResult_always(S, id) == id \in DOMAIN S \/ id \notin DOMAIN S

\* SessionStore.removeSession: the value it returns
removeSessionResult(S, id) == id \in DOMAIN S

\* a slip that would put a new record without the owner in the entry's place
updateSessionExpiry_rebuilt(S, id, newExpiresAt) ==
    IF id \in DOMAIN S
    THEN mapSet(S, id, [S[id] EXCEPT !.expiresAt = newExpiresAt, !.timer = TRUE,
                                     !.userId = NoId])
    ELSE S

\* SessionStore.updateSessionExpiry: the registry after the call
updateSessionExpiry(S, id, newExpiresAt) ==
    IF id \in DOMAIN S
    THEN mapSet(S, id, [S[id] EXCEPT !.expiresAt = newExpiresAt, !.timer = TRUE])
    ELSE S

\* The armed timer whose handle the entry of id holds, as a set: a timer
\* is the id its callback removes and the deadline it was armed for.
TimerOf(S, id) ==
    IF id \in DOMAIN S /\ S[id].timer
    THEN {[id |-> id, at |-> S[id].expiresAt]}
    ELSE {}

\* sessions.set(id, session) over an entry: the entry's timer is not
\* cleared and its handle is lost with the entry; T are the timers that no
\* entry holds
setOver(T, S, id) == T \cup TimerOf(S, id)

\* a slip that would delete the entry and leave its timer armed
removeSession_timersLeft_noClear(T, S, id) == setOver(T, S, id)

\* SessionStore.removeSession: clearTimeout(session.timer) and
\* sessions.delete run one after the other before the first await, so the
\* call leaves no timer behind
removeSession_timersLeft(T, S, id) == T

\* a slip that would arm the new timer without clearing the old one
updateSessionExpiry_timersLeft_noClear(T, S, id) == setOver(T, S, id)

\* SessionStore.updateSessionExpiry: clearTimeout(session.timer) comes
\* before the new setTimeout, so the call leaves no timer behind
updateSessionExpiry_timersLeft(T, S, id) == T

\* SessionStore.updateSessionExpiry: the value it returns
updateSessionExpiryResult(S, id) == id \in DOMAIN S

\* a slip that would restart the window at the time of the call
newExpiresAt_fromNow(session, extraMs, t) == t + extraMs

\* SessionManager.extendSession: the new expiry it asks for
newExpiresAt(session, extraMs, t) == session.expiresAt + extraMs

\* a slip that would drop the Math.max(0, ...) clamp
getRemainingTime_unclamped(S, id, t) ==
    IF id \notin DOMAIN S THEN 0 ELSE S[id].expiresAt - t

\* SessionStore.getRemainingTime: Math.max(0, session.expiresAt - Date.now())
getRemainingTime(S, id, t) ==
    IF id \notin DOMAIN S THEN 0
    ELSE IF S[id].expiresAt - t > 0 THEN S[id].expiresAt - t ELSE 0

\* a slip that would take every entry of the registry for active
isSessionActive_present(S, id, t) == id \in DOMAIN S

\* SessionStore.isSessionActive: session ? session.expiresAt > Date.now() : false
isSessionActive(S, id, t) == id \in DOMAIN S /\ S[id].expiresAt > t

\* a slip that would fall back to some session's endpoint for an unknown id
getSessionHostPort_fallback(S, id) ==
    IF id \in DOMAIN S THEN S[id].hostPort
    ELSE IF DOMAIN S = {} THEN 0 ELSE S[CHOOSE i \in DOMAIN S : TRUE].hostPort

\* session?.hostPort || null  (null is modelled as 0: a 0 port is falsy)
getSessionHostPort(S, id) == IF id \in DOMAIN S THEN S[id].hostPort ELSE 0

\* ---- DockerService: pure parts --------------------------------------------

\* listContainers({label, status: running}).length
RunningContainers == {i \in Ids : containers[i] = "running"}

\* ---- positions ------------------------------------------------------------
Provisioning == {"image", "create", "start", "port"}
InFlightCreate == Provisioning \cup {"list"}
Pending == {c \in Calls : cpc[c] \in Provisioning}

\* loadSessionsFromRedis not running: persistence is disabled by default
NoRestore == [pc |-> "off", keys |-> {}, key |-> NoId, data |-> << >>]

\* SessionManager.shutdown not called
NoShutdown == [pc |-> "idle", queue |-> {}]

\* cleanupOrphanedContainers not running and not yet run: pc is its position,
\* listed the containers of its listing with the State each had in it,
\* queue those of them it has still to send a remove for, key the one whose
\* remove is awaited, tried the ones a remove was sent for, cleaned the ones
\* whose remove was served, cleanedCount its counter
NoOrphans == [pc |-> "idle", listed |-> << >>, queue |-> {}, key |-> NoId,
              tried |-> {}, cleaned |-> {}, cleanedCount |-> 0]

\* The state after construction with SESSION_PERSISTENCE_ENABLED unset:
\* initializeRedis returns at once and this.redis stays null.
Init ==
    /\ now = 0
    /\ maxSessions \in 1..MaxCeiling
    /\ containers = [i \in Ids |-> "none"]
    /\ sessions = << >>
    /\ cpc = [c \in Calls |-> "idle"]
    /\ cattempt = [c \in Calls |-> 0]
    /\ spc = [s \in Stoppers |-> "idle"]
    /\ starget = [s \in Stoppers |-> NoId]
    /\ teardowns = [i \in Ids |-> 0]
    /\ faulted = {}
    /\ sweeping = {}
    /\ endedBy = [i \in Ids |-> "none"]
    /\ last = NoLast
    /\ raced = {}
    /\ redis = "null"
    /\ mirror = << >>
    /\ restore = NoRestore
    /\ shutdown = NoShutdown
    /\ cleanupInterval = TRUE
    /\ removing = {}
    /\ orphans = NoOrphans
    /\ strays = {}
    /\ exited = FALSE

Ev(op, id) == [NoLast EXCEPT !.op = op, !.id = id]

unchangedProcess ==
    UNCHANGED <<redis, restore, shutdown, cleanupInterval, removing, orphans,
                exited>>
unchangedRest == unchangedProcess /\ UNCHANGED raced
unchangedNew == unchangedRest /\ UNCHANGED <<mirror, strays>>

\* ---- the Redis mirror ----------------------------------------------------
\* JSON.stringify(session) as JSON.parse gives it back: the fields that
\* survive the round trip.  The timer handle does not: what comes back in
\* its place is no armed timer.
toJSON(session) ==
    [containerId |-> session.containerId, hostPort |-> session.hostPort,
     expiresAt |-> session.expiresAt,
     userId |-> session.userId, createdBy |-> session.createdBy]

fromJSON(data) ==
    [containerId |-> data.containerId, hostPort |-> data.hostPort,
     expiresAt |-> data.expiresAt, timer |-> FALSE,
     userId |-> data.userId, createdBy |-> data.createdBy]

\* what a Redis request can come to: nothing is sent without redis
RedisAnswers == IF redis = "up" THEN BOOLEAN ELSE {TRUE}

\* a slip that would round the remaining time down
setexSeconds_floor(session, t) == (session.expiresAt - t) \div MsPerSecond

\* persistSession: Math.ceil((session.expiresAt - Date.now()) / 1000), the
\* seconds given to setex
setexSeconds(session, t) ==
    (session.expiresAt - t + MsPerSecond - 1) \div MsPerSecond

\* SessionStore.persistSession: setex with a TTL of the remaining seconds;
\* nothing without redis; an error (Redis takes no TTL below 1) is logged
\* and swallowed.
persistSession(M, id, session, t, ok) ==
    IF redis = "up" /\ ok /\ setexSeconds(session, t) >= 1
    THEN mapSet(M, id, toJSON(session))
    ELSE M

\* the seconds persistSession gives to setex, when it sends one
persistTtl(session, t) == IF redis = "up" THEN setexSeconds(session, t) ELSE 0

\* createSession and updateSessionExpiry call this.persistSession(session)
\* without await: with redis set, its setex has been sent and not answered
\* when they return.  (The mirror is kept as the connection will see it:
\* Redis serves what one connection sends in the order sent.)
persistPending == redis = "up"

\* a slip that would let the error of del out of removeSessionFromRedis
removeSessionFromRedis_throws_uncaught(ok) == ~ok

\* removeSessionFromRedis, ok being the answer to its del: whether the
\* promise it returns rejects.  The catch logs the error and returns.
removeSessionFromRedis_throws(ok) == FALSE

\* SessionStore.removeSessionFromRedis: del; an error is logged and swallowed
removeSessionFromRedis(M, id, ok) ==
    IF redis = "up" /\ ok /\ id \in DOMAIN M THEN mapDelete(M, id) ELSE M

\* ---- the clock ------------------------------------------------------------
Tick ==
    /\ now < MaxTime
    /\ now' = now + 1
    /\ UNCHANGED <<maxSessions, containers, sessions, cpc, cattempt,
                   spc, starget, teardowns, faulted, sweeping, endedBy>>
    /\ unchangedNew
    /\ last' = NoLast

\* ---- the start-session handler: what it answers ------------------------------
\* An error message is kept as what the handler's includes() tests see in
\* it: the message of the two limit checks, a message of the runtime that
\* holds 'Docker', or any other message of the runtime.
CapacityError == "Maximum number of sessions"
RuntimeErrors == {"Docker", "other"}

\* a slip that would drop the test for the limit message
startSessionStatus_noLimitTest(error) == IF error = "Docker" THEN 503 ELSE 500

\* startSession's catch: 429 for the limit message, 503 for a message
\* holding 'Docker', 500 otherwise
startSessionStatus(error) ==
    IF error = CapacityError THEN 429
    ELSE IF error = "Docker" THEN 503
    ELSE 500

\* createSession has thrown error out of call c: the step it returns with.
\* last.status is what startSession answers when the call came through it;
\* last.served tells that the runtime had answered the step's request.
CreateFailed(c, error, served) ==
    [Ev("createFailed", c) EXCEPT !.error = error,
                                  !.status = startSessionStatus(error),
                                  !.served = served]

\* ---- createSession --------------------------------------------------------
unchangedStops == UNCHANGED <<spc, starget, teardowns, faulted>>

\* SessionManager.createSession up to its first await: the registry-side
\* limit check, then dockerService.startContainer is entered and issues
\* listContainers.
CreateSession_Admit(c) ==
    /\ cpc[c] = "idle"
    /\ IF getActiveSessionsCount(sessions) >= maxSessions
       THEN /\ cpc' = [cpc EXCEPT ![c] = "capacity"]
            /\ last' = [Ev("capacity", c) EXCEPT
                          !.counted = DOMAIN sessions,
                          !.error = CapacityError,
                          !.status = startSessionStatus(CapacityError)]
       ELSE /\ cpc' = [cpc EXCEPT ![c] = "list"]
            /\ last' = NoLast
    /\ UNCHANGED <<now, maxSessions, containers, sessions, cattempt,
                   sweeping, endedBy>>
    /\ unchangedStops
    /\ unchangedNew

\* DockerService.getActiveContainersCount: a failed listing counts as 0
getActiveContainersCount(listOk) ==
    IF listOk THEN Cardinality(RunningContainers) ELSE 0

\* DockerService.startContainer: the runtime-side limit check
StartContainer_Capacity(c) ==
    /\ cpc[c] = "list"
    /\ \E listOk \in BOOLEAN :
         IF getActiveContainersCount(listOk) >= maxSessions
         THEN /\ cpc' = [cpc EXCEPT ![c] = "capacity"]
              /\ last' = [Ev("capacity", c) EXCEPT
                            !.counted = RunningContainers,
                            !.error = CapacityError,
                            !.status = startSessionStatus(CapacityError)]
         ELSE /\ cpc' = [cpc EXCEPT ![c] = "image"]
              /\ last' = NoLast
    /\ UNCHANGED <<now, maxSessions, containers, sessions, cattempt,
                   sweeping, endedBy>>
    /\ unchangedStops
    /\ unchangedNew

\* DockerService.ensureImageExists: inspect, on a miss pull; a failed pull
\* throws out of startContainer and createSession.
EnsureImageExists(c) ==
    /\ cpc[c] = "image"
    /\ \E ok \in BOOLEAN, error \in RuntimeErrors :
         /\ cpc' = [cpc EXCEPT ![c] = IF ok THEN "create" ELSE "failed"]
         /\ last' = IF ok THEN NoLast ELSE CreateFailed(c, error, FALSE)
    /\ UNCHANGED <<now, maxSessions, containers, sessions, cattempt,
                   sweeping, endedBy>>
    /\ unchangedStops
    /\ unchangedNew

\* docker.createContainer: not retried
CreateContainer(c) ==
    /\ cpc[c] = "create"
    /\ \E ok \in BOOLEAN, error \in RuntimeErrors :
         /\ cpc' = [cpc EXCEPT ![c] = IF ok THEN "start" ELSE "failed"]
         /\ containers' = IF ok THEN [containers EXCEPT ![c] = "created"] ELSE containers
         /\ cattempt' = IF ok THEN [cattempt EXCEPT ![c] = 1] ELSE cattempt
         /\ last' = IF ok THEN NoLast ELSE CreateFailed(c, error, FALSE)
    /\ UNCHANGED <<now, maxSessions, sessions, sweeping, endedBy>>
    /\ unchangedStops
    /\ unchangedNew

\* DockerService.startContainerWithRetry: one attempt of the loop
StartContainerWithRetry(c) ==
    /\ cpc[c] = "start"
    /\ \E ok \in BOOLEAN, error \in RuntimeErrors :
         /\ IF ok
            THEN /\ containers' = [containers EXCEPT ![c] = "running"]
                 /\ cpc' = [cpc EXCEPT ![c] = "port"]
                 /\ cattempt' = [cattempt EXCEPT ![c] = 0]
                 /\ last' = [Ev("started", c) EXCEPT !.ok = TRUE, !.extra = cattempt[c]]
            ELSE /\ UNCHANGED containers
                 /\ IF cattempt[c] = maxRetries
                    THEN /\ cpc' = [cpc EXCEPT ![c] = "failed"]
                         /\ cattempt' = [cattempt EXCEPT ![c] = 0]
                         /\ last' = [Ev("started", c) EXCEPT
                                       !.extra = cattempt[c],
                                       !.error = error,
                                       !.status = startSessionStatus(error)]
                    ELSE /\ cattempt' = [cattempt EXCEPT ![c] = cattempt[c] + 1]
                         /\ UNCHANGED cpc
                         /\ last' = NoLast
    /\ UNCHANGED <<now, maxSessions, sessions, sweeping, endedBy>>
    /\ unchangedStops
    /\ unchangedNew

\* a slip that would make a port that never showed a failure
startContainerReturns_unlessZero(inspectOk, hostPort) == inspectOk /\ hostPort # 0

\* DockerService.startContainer from waitForHostPort on: it returns its
\* ContainerInfo unless an inspect throws; a hostPort of 0 is only logged
startContainerReturns(inspectOk, hostPort) == inspectOk

\* DockerService.waitForHostPort (polls inspect until the port shows or the
\* timeout passes, then 0), the final container.inspect of startContainer,
\* its return, and the synchronous rest of createSession:
\* sessionStore.createSession(id, hostPort, durationMs), after which
\* startSession answers 201.  An inspect that throws ends startContainer and
\* createSession with the error.
CreateSession_Register(c) ==
    /\ cpc[c] = "port"
    /\ \E ok \in BOOLEAN, rok \in RedisAnswers, hostPort \in {0, c},
          durationMs \in Durations, error \in RuntimeErrors :
         IF startContainerReturns(ok, hostPort)
         THEN /\ sessions' = mapSet(sessions, c,
                                NewSession(c, hostPort, durationMs, UserOf(c), now))
              /\ mirror' = persistSession(mirror, c,
                                NewSession(c, hostPort, durationMs, UserOf(c), now),
                                now, rok)
              /\ cpc' = [cpc EXCEPT ![c] = "ok"]
              /\ last' = [Ev("created", c) EXCEPT !.ok = TRUE, !.extra = durationMs,
                                                  !.pending = persistPending,
                                                  !.ttl = persistTtl(sessions'[c], now),
                                                  !.hostPort = hostPort,
                                                  !.status = 201]
         ELSE /\ UNCHANGED <<sessions, mirror>>
              /\ cpc' = [cpc EXCEPT ![c] = "failed"]
              /\ last' = CreateFailed(c, error, ok)
    /\ UNCHANGED <<now, maxSessions, containers, cattempt, sweeping, endedBy,
                   strays>>
    /\ unchangedStops
    /\ unchangedRest

createSession(c) ==
    \/ CreateSession_Admit(c)
    \/ StartContainer_Capacity(c)
    \/ EnsureImageExists(c)
    \/ CreateContainer(c)
    \/ StartContainerWithRetry(c)
    \/ CreateSession_Register(c)

\* ---- stopSession ----------------------------------------------------------
unchangedCreates == UNCHANGED <<cpc, cattempt>>

\* a slip that would keep the session of a container that could not be
\* torn down
stopSessionRemoves_ifStopped(containerStopped) == containerStopped

\* SessionManager.stopSession: sessionStore.removeSession(containerId) is
\* awaited right after stopContainer, whatever stopContainer returned
stopSessionRemoves(containerStopped) == TRUE

\* SessionManager.stopSession: return containerStopped && sessionRemoved
stopSessionReturn(containerStopped, sessionRemoved) ==
    containerStopped /\ sessionRemoved

\* a slip that would tell a failed stop as not found
stopSessionResponse_notFound(success) ==
    IF success THEN [status |-> 200, success |-> TRUE, stopped |-> TRUE]
    ELSE [status |-> 404, success |-> FALSE, stopped |-> FALSE]

\* The stop-session handler once sessionManager.stopSession has returned
\* success: 'Session stopped successfully' or, for false, 'Session already
\* stopped or does not exist'; status and body are the same in both.
stopSessionResponse(success) ==
    IF success THEN [status |-> 200, success |-> TRUE, stopped |-> TRUE]
    ELSE [status |-> 200, success |-> TRUE, stopped |-> TRUE]

\* The end of SessionStore.removeSession(id), removed being what it returns:
\* a session that was there leaves the mirror too (unless del fails).
RemovedFromRedis(id, removed) ==
    \E rok \in RedisAnswers :
        mirror' = IF removed THEN removeSessionFromRedis(mirror, id, rok) ELSE mirror

\* The tail of stopSession once stopContainer has returned containerStopped:
\* sessionStore.removeSession runs whatever stopContainer returned.  fault
\* tells that the runtime failed the request although the container was in
\* a state that allows it.  last.status, success and stopped are what the
\* stop-session handler answers when the call came through it.
StopSession_Finish(s, id, fault, containerStopped) ==
    LET removes == stopSessionRemoves(containerStopped)
        removed == removes /\ removeSessionResult(sessions, id)
        response == stopSessionResponse(stopSessionReturn(containerStopped, removed)) IN
    /\ sessions' = IF removes THEN removeSession(sessions, id) ELSE sessions
    /\ strays' = IF removes THEN removeSession_timersLeft(strays, sessions, id)
                  ELSE strays
    /\ RemovedFromRedis(id, removed)
    /\ endedBy' = IF removed THEN [endedBy EXCEPT ![id] = "stop"] ELSE endedBy
    /\ spc' = [spc EXCEPT ![s] = "done"]
    /\ faulted' = IF fault THEN faulted \cup {id} ELSE faulted
    /\ last' = [Ev("stop", id) EXCEPT
                  !.ok = stopSessionReturn(containerStopped, removed),
                  !.containerStopped = containerStopped,
                  !.sessionRemoved = removed,
                  !.status = response.status,
                  !.success = response.success,
                  !.stopped = response.stopped]

\* the runtime knows a container id
Exists(id) == id \in Ids /\ containers[id] \in {"created", "running", "exited", "dead"}

\* What a caller can pass as containerId: an id that createSession has
\* returned (the runtime's ids cannot be guessed), or one that names nothing.
Targets == {i \in Ids : i \in DOMAIN sessions \/ endedBy[i] # "none"} \cup {NoId}

\* stopSession(id) is called; DockerService.stopContainer inspects the
\* container.  A container the runtime does not know makes inspect throw,
\* which stopContainer turns into false.  Otherwise the continuation sends
\* the first teardown request at once: stop for a running container, remove
\* for any other.
StopContainer_Inspect(s, id) ==
    /\ spc[s] = "idle"
    /\ starget' = [starget EXCEPT ![s] = id]
    /\ \E ok \in BOOLEAN :
         IF ok /\ Exists(id)
         THEN /\ spc' = [spc EXCEPT ![s] =
                           IF containers[id] = "running" THEN "stop" ELSE "remove"]
              /\ teardowns' = [teardowns EXCEPT ![id] = teardowns[id] + 1]
              /\ last' = NoLast
              /\ UNCHANGED <<sessions, endedBy, faulted, mirror, strays>>
         ELSE /\ StopSession_Finish(s, id, Exists(id), FALSE)
              /\ UNCHANGED teardowns
    /\ UNCHANGED <<now, maxSessions, containers, sweeping>>
    /\ unchangedCreates
    /\ unchangedRest

\* container.stop({t: 10}): stopping a container that is not running, or
\* that is gone, is an error of the runtime.
StopContainer_Stop(s) ==
    LET id == starget[s] IN
    /\ spc[s] = "stop"
    /\ UNCHANGED teardowns
    /\ \E ok \in BOOLEAN :
         IF ok /\ containers[id] = "running"
         THEN /\ containers' = [containers EXCEPT ![id] = "exited"]
              /\ spc' = [spc EXCEPT ![s] = "remove"]
              /\ last' = NoLast
              /\ UNCHANGED <<sessions, endedBy, faulted, mirror, strays>>
         ELSE /\ StopSession_Finish(s, id, containers[id] = "running", FALSE)
              /\ UNCHANGED containers
    /\ UNCHANGED <<now, maxSessions, starget, sweeping>>
    /\ unchangedCreates
    /\ unchangedRest

\* container.remove({force: true}) and the return of stopContainer
StopContainer_Remove(s) ==
    LET id == starget[s] IN
    /\ spc[s] = "remove"
    /\ UNCHANGED teardowns
    /\ \E ok \in BOOLEAN :
         IF ok /\ Exists(id)
         THEN /\ containers' = [containers EXCEPT ![id] = "gone"]
              /\ StopSession_Finish(s, id, FALSE, TRUE)
         ELSE /\ StopSession_Finish(s, id, Exists(id), FALSE)
              /\ UNCHANGED containers
    /\ UNCHANGED <<now, maxSessions, starget, sweeping>>
    /\ unchangedCreates
    /\ unchangedRest

stopSession(s) ==
    \/ \E id \in Targets : StopContainer_Inspect(s, id)
    \/ StopContainer_Stop(s)
    \/ StopContainer_Remove(s)

\* HostConfig.AutoRemove: the runtime removes a container once it has exited
AutoRemove(id) ==
    /\ containers[id] = "exited"
    /\ containers' = [containers EXCEPT ![id] = "gone"]
    /\ UNCHANGED <<now, maxSessions, sessions, cpc, cattempt,
                   spc, starget, teardowns, faulted, sweeping, endedBy>>
    /\ unchangedNew
    /\ last' = NoLast

\* ---- extendSession --------------------------------------------------------
\* SessionManager.extendSession: synchronous, one step.  A missing session
\* throws 'Session not found' inside the try and the catch returns false.
extendSession(id, extraMs) ==
    /\ IF id \in DOMAIN sessions
       THEN /\ newExpiresAt(sessions[id], extraMs, now) <= MaxExpiry
            /\ sessions' = updateSessionExpiry(sessions, id,
                               newExpiresAt(sessions[id], extraMs, now))
            /\ \E rok \in RedisAnswers :
                 mirror' = persistSession(mirror, id, sessions'[id], now, rok)
            /\ last' = [Ev("extend", id) EXCEPT
                          !.ok = updateSessionExpiryResult(sessions, id),
                          !.active = isSessionActive(sessions, id, now),
                          !.old = sessions[id].expiresAt,
                          !.extra = extraMs,
                          !.pending = persistPending,
                          !.ttl = persistTtl(sessions'[id], now)]
            /\ strays' = updateSessionExpiry_timersLeft(strays, sessions, id)
       ELSE /\ UNCHANGED <<sessions, mirror, strays>>
            /\ last' = [Ev("extend", id) EXCEPT !.extra = extraMs]
    /\ UNCHANGED <<now, maxSessions, containers, sweeping, endedBy>>
    /\ unchangedCreates
    /\ unchangedStops
    /\ unchangedRest

\* ---- expiry ---------------------------------------------------------------
\* The setTimeout callback armed by createSession / updateSessionExpiry:
\* this.removeSession(containerId), nothing else.  The timer that runs it
\* is the one the entry holds and is spent.
TimerFire(id) ==
    /\ id \in DOMAIN sessions
    /\ sessions[id].timer
    /\ now >= sessions[id].expiresAt
    /\ sessions' = removeSession(sessions, id)
    /\ RemovedFromRedis(id, TRUE)
    /\ endedBy' = [endedBy EXCEPT ![id] = "timer"]
    /\ raced' = IF \E s \in Stoppers : starget[s] = id /\ spc[s] \in {"stop", "remove"}
                THEN raced \cup {id} ELSE raced
    /\ last' = NoLast
    /\ UNCHANGED <<now, maxSessions, containers, sweeping>>
    /\ unchangedCreates
    /\ unchangedStops
    /\ unchangedProcess
    /\ UNCHANGED strays

\* The callback of a timer that no entry holds: this.removeSession(id) all
\* the same, which removes whatever entry id has by then
StrayFire(id) ==
    /\ \E timer \in strays :
         /\ timer.id = id
         /\ now >= timer.at
         /\ strays' = removeSession_timersLeft(strays, sessions, id) \ {timer}
    /\ sessions' = removeSession(sessions, id)
    /\ RemovedFromRedis(id, removeSessionResult(sessions, id))
    /\ endedBy' = IF removeSessionResult(sessions, id)
                  THEN [endedBy EXCEPT ![id] = "timer"] ELSE endedBy
    /\ last' = NoLast
    /\ UNCHANGED <<now, maxSessions, containers, sweeping, raced>>
    /\ unchangedCreates
    /\ unchangedStops
    /\ unchangedProcess

\* SessionStore.cleanupExpiredSessions, run by the cleanup interval: the
\* snapshot of the expired entries and the removal of the first of them
\* (the loop awaits after each removeSession).
\* a slip that would leave a session expiring at the moment of the sweep
expiredSessions_strictlyPast(S, t) == {i \in DOMAIN S : S[i].expiresAt < t}

expiredSessions(S, t) == {i \in DOMAIN S : S[i].expiresAt <= t}

CleanupExpiredSessions_Start ==
    /\ cleanupInterval
    /\ sweeping = {}
    /\ \E id \in expiredSessions(sessions, now) :
         /\ sessions' = removeSession(sessions, id)
         /\ strays' = removeSession_timersLeft(strays, sessions, id)
         /\ RemovedFromRedis(id, TRUE)
         /\ endedBy' = [endedBy EXCEPT ![id] = "sweep"]
         /\ sweeping' = expiredSessions(sessions, now) \ {id}
         /\ last' = NoLast
    /\ UNCHANGED <<now, maxSessions, containers>>
    /\ unchangedCreates
    /\ unchangedStops
    /\ unchangedRest

\* the next iteration of the sweep's loop
CleanupExpiredSessions_Next ==
    /\ \E id \in sweeping :
         /\ sessions' = removeSession(sessions, id)
         /\ strays' = removeSession_timersLeft(strays, sessions, id)
         /\ RemovedFromRedis(id, removeSessionResult(sessions, id))
         /\ endedBy' = IF removeSessionResult(sessions, id)
                       THEN [endedBy EXCEPT ![id] = "sweep"] ELSE endedBy
         /\ sweeping' = sweeping \ {id}
         /\ last' = NoLast
    /\ UNCHANGED <<now, maxSessions, containers>>
    /\ unchangedCreates
    /\ unchangedStops
    /\ unchangedRest

\* ---- shutdown --------------------------------------------------------------
unchangedByShutdown ==
    /\ UNCHANGED <<now, maxSessions, containers, teardowns, faulted, sweeping,
                   raced, redis, mirror, restore, removing, orphans, strays,
                   exited>>
    /\ unchangedCreates

\* SessionStore.shutdown from its last line back: every timer cleared,
\* sessions.clear()
clearSessions ==
    /\ sessions' = << >>
    /\ endedBy' = [i \in Ids |-> IF i \in DOMAIN sessions THEN "shutdown" ELSE endedBy[i]]

\* SessionStore.shutdown as far as it runs without waiting: it clears the
\* interval and, with redis, awaits redis.quit(); without redis it clears
\* timers and registry at once and SessionManager.shutdown returns.
sessionStoreShutdown ==
    /\ cleanupInterval' = FALSE
    /\ IF redis = "up"
       THEN /\ shutdown' = [pc |-> "quit", queue |-> {}]
            /\ last' = NoLast
            /\ UNCHANGED <<sessions, endedBy>>
       ELSE /\ shutdown' = [pc |-> "returned", queue |-> {}]
            /\ last' = [Ev("shutdown", NoId) EXCEPT !.ok = TRUE]
            /\ clearSessions

\* SessionManager.shutdown is called (SIGTERM, SIGINT, or the tests'
\* afterAll): the snapshot sessionStore.getAllSessions() that the loop runs
\* over.  With nothing in it the loop is over at once.
Shutdown_Begin ==
    /\ shutdown.pc = "idle"
    /\ IF DOMAIN sessions = {}
       THEN sessionStoreShutdown
       ELSE /\ shutdown' = [pc |-> "stopping", queue |-> DOMAIN sessions]
            /\ last' = NoLast
            /\ UNCHANGED <<sessions, endedBy, cleanupInterval>>
    /\ UNCHANGED <<spc, starget>>
    /\ unchangedByShutdown

\* the loop calls this.stopSession(session.containerId) for the next session
\* of the snapshot; the call runs through the steps of stopSession
Shutdown_Stop ==
    /\ shutdown.pc = "stopping"
    /\ \E id \in shutdown.queue : StopContainer_Inspect(ShutdownCall, id)

\* stopSession has returned, true or false: the loop goes on, and after the
\* last session of the snapshot sessionStore.shutdown() is called
Shutdown_Stopped ==
    /\ shutdown.pc = "stopping"
    /\ spc[ShutdownCall] = "done"
    /\ spc' = [spc EXCEPT ![ShutdownCall] = "idle"]
    /\ IF shutdown.queue \ {starget[ShutdownCall]} = {}
       THEN sessionStoreShutdown
       ELSE /\ shutdown' = [shutdown EXCEPT !.queue = @ \ {starget[ShutdownCall]}]
            /\ last' = NoLast
            /\ UNCHANGED <<sessions, endedBy, cleanupInterval>>
    /\ UNCHANGED starget
    /\ unchangedByShutdown

\* The answer to redis.quit(): on success the timers and the registry are
\* cleared; an error leaves SessionStore.shutdown at that line and is caught
\* and logged by SessionManager.shutdown, which returns.
Shutdown_Quit ==
    /\ shutdown.pc = "quit"
    /\ \E ok \in BOOLEAN :
         /\ last' = [Ev("shutdown", NoId) EXCEPT !.ok = ok]
         /\ IF ok THEN clearSessions ELSE UNCHANGED <<sessions, endedBy>>
    /\ shutdown' = [shutdown EXCEPT !.pc = "returned"]
    /\ UNCHANGED <<spc, starget, cleanupInterval>>
    /\ unchangedByShutdown

shutdownSessionManager ==
    \/ Shutdown_Begin
    \/ Shutdown_Stop
    \/ StopContainer_Stop(ShutdownCall)
    \/ StopContainer_Remove(ShutdownCall)
    \/ Shutdown_Stopped
    \/ Shutdown_Quit

\* ---- signals -----------------------------------------------------------------
\* The listeners of SIGTERM and of SIGINT in the order they are registered:
\* app.ts registers its own when the module is loaded, which the server's
\* import of it does; startServer registers gracefulShutdown later, after
\* the health check it awaits.
signalHandlers == <<"app", "gracefulShutdown">>

\* app's listener logs and calls process.exit(0); gracefulShutdown calls
\* process.exit(0) only after it has awaited sessionManager.shutdown()
exitsAtOnce(handler) == handler = "app"

\* The listeners that get to run when the signal is emitted: they run one
\* after the other on the same thread, and process.exit ends the process
\* inside the listener that calls it.
handlersRun ==
    LET stops == {i \in 1..Len(signalHandlers) : exitsAtOnce(signalHandlers[i])} IN
    IF stops = {} THEN signalHandlers
    ELSE SubSeq(signalHandlers, 1, CHOOSE i \in stops : \A j \in stops : i <= j)

\* SIGTERM or SIGINT arrives.  gracefulShutdown, when it gets to run, goes
\* as far as the snapshot of sessionManager.shutdown and its first await.
Signal ==
    /\ ~exited
    /\ shutdown.pc = "idle"
    /\ exited' = \E i \in 1..Len(handlersRun) : exitsAtOnce(handlersRun[i])
    /\ shutdown' = IF \E i \in 1..Len(handlersRun) : handlersRun[i] = "gracefulShutdown"
                   THEN [pc |-> "stopping", queue |-> DOMAIN sessions]
                   ELSE shutdown
    /\ last' = Ev("signal", NoId)
    /\ UNCHANGED <<now, maxSessions, containers, sessions, cpc, cattempt,
                   spc, starget, teardowns, faulted, sweeping, endedBy,
                   raced, redis, mirror, restore, cleanupInterval,
                   removing, orphans, strays>>

\* ---- the proxy -------------------------------------------------------------
\* proxyToBrowser for /proxy/<id>/...: 404 when getSessionHostPort gives no
\* number (null), else the request is handed to a proxy whose target is
\* http://localhost:<hostPort>.  last.extra is the port of the target.
proxyToBrowser(id) ==
    LET hostPort == getSessionHostPort(sessions, id) IN
    /\ last' = IF hostPort = 0
               THEN Ev("proxy", id)
               ELSE [Ev("proxy", id) EXCEPT !.ok = TRUE, !.extra = hostPort]
    /\ UNCHANGED <<now, maxSessions, containers, sessions, cpc, cattempt,
                   spc, starget, teardowns, faulted, sweeping, endedBy>>
    /\ unchangedNew

\* ---- the orphan sweep -------------------------------------------------------
\* The runtime on its own: the process of a running container ends
ContainerExit(id) ==
    /\ containers[id] = "running"
    /\ containers' = [containers EXCEPT ![id] = "exited"]
    /\ UNCHANGED <<now, maxSessions, sessions, cpc, cattempt,
                   spc, starget, teardowns, faulted, sweeping, endedBy>>
    /\ unchangedNew
    /\ last' = NoLast

\* The runtime on its own: the removal of an exited container fails and
\* leaves it in the state dead
ContainerDead(id) ==
    /\ containers[id] = "exited"
    /\ containers' = [containers EXCEPT ![id] = "dead"]
    /\ UNCHANGED <<now, maxSessions, sessions, cpc, cattempt,
                   spc, starget, teardowns, faulted, sweeping, endedBy>>
    /\ unchangedNew
    /\ last' = NoLast

unchangedByOrphans ==
    /\ UNCHANGED <<now, maxSessions, sessions, cpc, cattempt, sweeping, endedBy,
                   raced, redis, mirror, restore, shutdown, cleanupInterval,
                   removing, strays, exited>>
    /\ unchangedStops

\* a slip that would sweep running containers too
isOrphanedState_orRunning(State) == State \in {"exited", "dead", "running"}

\* containerInfo.State === 'exited' || containerInfo.State === 'dead'
isOrphanedState(State) == State \in {"exited", "dead"}

\* listContainers({all: true, label}): every container the runtime has
\* carries the label, createContainer sets it
listContainers == [i \in {j \in Ids : Exists(j)} |-> containers[i]]

\* The for loop of cleanupOrphanedContainers goes on over the containers Q
\* of the listing that are still to come: those not in an orphaned state
\* are passed over; a remove is sent for the next orphaned one; with none
\* left the function returns cleanedCount, and
\* SessionManager.cleanupExpiredSessions returns it in turn.
OrphansGoOn(o, Q) ==
    /\ IF Q = {}
       THEN /\ orphans' = [o EXCEPT !.pc = "returned", !.queue = {}, !.key = NoId]
            /\ last' = [Ev("cleanup", NoId) EXCEPT !.extra = o.cleanedCount]
       ELSE /\ \E k \in Q :
                 orphans' = [o EXCEPT !.pc = "remove", !.queue = Q \ {k},
                                      !.key = k, !.tried = @ \cup {k}]
            /\ last' = NoLast

\* SessionManager.cleanupExpiredSessions is called: it calls
\* dockerService.cleanupOrphanedContainers, which sends listContainers
cleanupOrphanedContainers_Call ==
    /\ orphans.pc \in {"idle", "returned"}
    /\ orphans' = [NoOrphans EXCEPT !.pc = "list"]
    /\ last' = NoLast
    /\ UNCHANGED containers
    /\ unchangedByOrphans

\* the answer to listContainers: an error is caught and 0 returned; else
\* the loop starts
cleanupOrphanedContainers_List(ok) ==
    /\ orphans.pc = "list"
    /\ IF ok
       THEN OrphansGoOn([orphans EXCEPT !.listed = listContainers],
                        {i \in DOMAIN listContainers :
                             isOrphanedState(listContainers[i])})
       ELSE /\ orphans' = [orphans EXCEPT !.pc = "returned"]
            /\ last' = Ev("cleanup", NoId)
    /\ UNCHANGED containers
    /\ unchangedByOrphans

\* the answer to container.remove({force: true}): served, the container is
\* gone and counted; an error (the container is gone already, or the
\* runtime fails) is caught inside the loop and logged; the loop goes on
cleanupOrphanedContainers_Remove(ok) ==
    LET k == orphans.key IN
    /\ orphans.pc = "remove"
    /\ IF ok /\ Exists(k)
       THEN /\ containers' = [containers EXCEPT ![k] = "gone"]
            /\ OrphansGoOn([orphans EXCEPT !.cleaned = @ \cup {k},
                                           !.cleanedCount = @ + 1],
                           orphans.queue)
       ELSE /\ UNCHANGED containers
            /\ OrphansGoOn(orphans, orphans.queue)
    /\ unchangedByOrphans

cleanupOrphanedContainers ==
    \/ cleanupOrphanedContainers_Call
    \/ \E ok \in BOOLEAN : cleanupOrphanedContainers_List(ok)
    \/ \E ok \in BOOLEAN : cleanupOrphanedContainers_Remove(ok)

\* ---- the handlers of the HTTP API --------------------------------------------
\* What reaches a handler has passed its validators: containerId is a
\* string of 1 to 100 characters.
unchangedByHandler ==
    /\ UNCHANGED <<now, maxSessions, containers, sessions, cpc, cattempt,
                   spc, starget, teardowns, faulted, sweeping, endedBy>>
    /\ unchangedNew

\* POST /api/browser/stop-session: for a session that is not active the
\* handler answers at once; else it awaits sessionManager.stopSession, whose
\* steps follow, and answers by stopSessionResponse when it has returned.
stopSessionHandler_Check(s, id) ==
    IF ~isSessionActive(sessions, id, now)
    THEN /\ spc[s] = "idle"
         /\ last' = [Ev("stop-session", id) EXCEPT
                       !.status = 200, !.success = TRUE, !.stopped = TRUE]
         /\ unchangedByHandler
    ELSE StopContainer_Inspect(s, id)

stopSessionHandler(s) ==
    \/ \E id \in Targets : stopSessionHandler_Check(s, id)
    \/ StopContainer_Stop(s)
    \/ StopContainer_Remove(s)

\* GET /api/browser/remaining-time: 404 for a session that is not active,
\* else 200 with sessionManager.getRemainingTime(containerId).
\* last.extra is data.remainingTimeMs.
getRemainingTimeHandler(id) ==
    /\ last' = IF ~isSessionActive(sessions, id, now)
               THEN [Ev("remaining-time", id) EXCEPT
                       !.status = 404,
                       !.error = "Session not found or already expired",
                       !.extra = 0]
               ELSE [Ev("remaining-time", id) EXCEPT
                       !.status = 200,
                       !.success = TRUE,
                       !.extra = getRemainingTime(sessions, id, now)]
    /\ unchangedByHandler

\* ---- a clock that the sweep keeps up with ----------------------------------
\* setInterval(cleanupExpiredSessions, cleanupIntervalMs): a sweep is due
\* every SweepEvery ticks after construction
SweepDue(t) == t > 0 /\ t % SweepEvery = 0

\* The clock when the event loop is not held up: time does not pass a due
\* sweep before the sweep has run, its awaited Redis requests included.
TickOnTime ==
    /\ now < MaxUptime
    /\ (cleanupInterval /\ SweepDue(now))
         => expiredSessions(sessions, now) = {} /\ sweeping = {}
    /\ now' = now + 1
    /\ UNCHANGED <<maxSessions, containers, sessions, cpc, cattempt,
                   spc, starget, teardowns, faulted, sweeping, endedBy>>
    /\ unchangedNew
    /\ last' = NoLast

\* ---- restore after a restart ----------------------------------------------
\* loadSessionsFromRedis, line 59: only sessions that have not expired
\* a slip that would also load a session expiring at this very moment
notExpired_orNow(session, t) == session.expiresAt >= t

notExpired(session, t) == session.expiresAt > t

\* what redis.get(session:<id>) answers when the request is served
redisGet(M, id) == IF id \in DOMAIN M THEN <<M[id]>> ELSE << >>

\* The state after construction in a process started with
\* SESSION_PERSISTENCE_ENABLED=true over a mirror left by an earlier process:
\* the registry is empty, this.redis is set and redis.connect() is awaited.
\* Every stored session is one an earlier createSession wrote; its container
\* still runs or is gone, and callers still hold its id.  Time counts from
\* the start of this process: a stored expiresAt of 0 has already passed.
StoredSessions ==
    UNION {[K -> {toJSON([NewSession(p, p, e, UserOf(p), 0) EXCEPT !.expiresAt = e])
                    : p \in Ids, e \in 0..MaxDelta}]
             : K \in SUBSET Ids}

InitRestart ==
    /\ now = 0
    /\ maxSessions \in 1..MaxCeiling
    /\ mirror \in {M \in StoredSessions : \A i \in DOMAIN M : M[i].containerId = i}
    /\ containers \in {C \in [Ids -> {"none", "running", "gone"}] :
                          \A i \in Ids : C[i] = "none" <=> i \notin DOMAIN mirror}
    /\ sessions = << >>
    /\ cpc = [c \in Calls |-> IF c \in DOMAIN mirror THEN "ok" ELSE "idle"]
    /\ cattempt = [c \in Calls |-> 0]
    /\ spc = [s \in Stoppers |-> "idle"]
    /\ starget = [s \in Stoppers |-> NoId]
    /\ teardowns = [i \in Ids |-> 0]
    /\ faulted = {}
    /\ sweeping = {}
    /\ endedBy = [i \in Ids |-> "none"]
    /\ last = NoLast
    /\ raced = {}
    /\ redis = "up"
    /\ restore = [NoRestore EXCEPT !.pc = "connect"]
    /\ shutdown = NoShutdown
    /\ cleanupInterval = TRUE
    /\ removing = {}
    /\ orphans = NoOrphans
    /\ strays = {}
    /\ exited = FALSE

unchangedByRestore ==
    /\ UNCHANGED <<now, maxSessions, containers, cpc, cattempt, sweeping, endedBy,
                   raced, shutdown, cleanupInterval, removing, orphans, exited>>
    /\ unchangedStops

\* initializeRedis: the answer to redis.connect().  On an error the catch
\* sets this.redis = null; otherwise loadSessionsFromRedis sends KEYS.
InitializeRedis ==
    /\ restore.pc = "connect"
    /\ \E ok \in BOOLEAN :
         /\ redis' = IF ok THEN "up" ELSE "null"
         /\ restore' = [restore EXCEPT !.pc = IF ok THEN "keys" ELSE "failed"]
    /\ last' = NoLast
    /\ UNCHANGED <<sessions, mirror, strays>>
    /\ unchangedByRestore

\* The loop of loadSessionsFromRedis moves to its next key: GET is sent, and
\* Redis serves the requests of the one connection in the order sent, so
\* the answer is the mirror as it is now.  With no key left the load is done.
NextKey(r, K, M) ==
    IF K = {} THEN {[r EXCEPT !.pc = "done", !.keys = {}, !.key = NoId, !.data = << >>]}
    ELSE {[r EXCEPT !.pc = "get", !.keys = K \ {k}, !.key = k, !.data = redisGet(M, k)]
            : k \in K}

\* loadSessionsFromRedis: the answer to redis.keys('session:*')
LoadSessions_Keys ==
    /\ restore.pc = "keys"
    /\ \E ok \in BOOLEAN :
         IF ok THEN restore' \in NextKey(restore, DOMAIN mirror, mirror)
         ELSE restore' = [restore EXCEPT !.pc = "failed"]
    /\ last' = NoLast
    /\ UNCHANGED <<sessions, mirror, redis, strays>>
    /\ unchangedByRestore

\* loadSessionsFromRedis: the answer to redis.get(key) and the body of the
\* loop: a session that has not expired is put into the registry as parsed,
\* an expired one is deleted from Redis (awaited; merged into this step).
\* Any Redis error ends the loop in the catch.
LoadSessions_Get ==
    LET id == restore.key
        data == restore.data IN
    /\ restore.pc = "get"
    /\ \E ok, dok \in BOOLEAN :
         IF ~ok
         THEN /\ restore' = [restore EXCEPT !.pc = "failed"]
              /\ last' = NoLast
              /\ UNCHANGED <<sessions, mirror, strays>>
         ELSE IF data = << >>
         THEN /\ restore' \in NextKey(restore, restore.keys, mirror)
              /\ last' = NoLast
              /\ UNCHANGED <<sessions, mirror, strays>>
         ELSE IF notExpired(data[1], now)
         THEN /\ sessions' = mapSet(sessions, id, fromJSON(data[1]))
              /\ strays' = setOver(strays, sessions, id)
              /\ restore' \in NextKey(restore, restore.keys, mirror)
              /\ last' = [Ev("load", id) EXCEPT !.ok = TRUE, !.old = data[1].expiresAt]
              /\ UNCHANGED mirror
         ELSE /\ mirror' = IF dok /\ id \in DOMAIN mirror
                           THEN mapDelete(mirror, id) ELSE mirror
              /\ restore' \in IF dok THEN NextKey(restore, restore.keys, mirror')
                               ELSE {[restore EXCEPT !.pc = "failed"]}
              /\ last' = [Ev("load", id) EXCEPT !.old = data[1].expiresAt]
              /\ UNCHANGED <<sessions, strays>>
    /\ UNCHANGED redis
    /\ unchangedByRestore

\* Redis drops a key when its TTL runs out: setex gave it the remaining
\* time rounded up to whole seconds (setexSeconds), so not before expiresAt.
RedisExpire(id) ==
    /\ id \in DOMAIN mirror
    /\ mirror[id].expiresAt <= now
    /\ mirror' = mapDelete(mirror, id)
    /\ last' = NoLast
    /\ UNCHANGED <<sessions, redis, restore, strays>>
    /\ unchangedByRestore

\* ---- the registry called directly ------------------------------------------
\* sessionStore is an exported object: createSession, removeSession and
\* updateSessionExpiry are public and take any containerId.
unchangedByStore ==
    /\ UNCHANGED <<now, maxSessions, containers, sweeping, raced, redis, restore,
                   shutdown, cleanupInterval, orphans, exited>>
    /\ unchangedCreates
    /\ unchangedStops

\* SessionStore.createSession(containerId, hostPort, durationMs): builds the
\* session, arms its timer, this.sessions.set, persistSession (not awaited),
\* returns the session.  Nothing looks for an entry that is already there
\* (whose timer is not cleared either).  last.active tells that there was
\* one, last.old its expiresAt.  The calls that leave a timer behind are
\* counted up to MaxStrays timers pending at a time.
sessionStore_createSession(id, hostPort, durationMs, userId) ==
    /\ Cardinality(setOver(strays, sessions, id)) <= MaxStrays
    /\ sessions' = mapSet(sessions, id,
                           NewSession(id, hostPort, durationMs, userId, now))
    /\ \E rok \in RedisAnswers :
         mirror' = persistSession(mirror, id,
                       NewSession(id, hostPort, durationMs, userId, now), now, rok)
    /\ last' = [Ev("createSession", id) EXCEPT
                  !.ok = TRUE,
                  !.active = id \in DOMAIN sessions,
                  !.old = IF id \in DOMAIN sessions THEN sessions[id].expiresAt ELSE 0,
                  !.pending = persistPending,
                  !.ttl = persistTtl(sessions'[id], now)]
    /\ strays' = setOver(strays, sessions, id)
    /\ UNCHANGED <<endedBy, removing>>
    /\ unchangedByStore

\* SessionStore.removeSession(containerId) up to its await: without an entry
\* it returns false; with one it clears the timer, deletes the entry and
\* sends del, which Redis serves after what was sent before it.
\* The record kept until the return: found tells that the call found an
\* entry, served that Redis served its del.
sessionStore_removeSession_Call(id) ==
    /\ id \in DOMAIN sessions => \A r \in removing : r.id # id
    /\ IF removeSessionResult(sessions, id)
       THEN \E rok \in RedisAnswers :
              /\ sessions' = removeSession(sessions, id)
              /\ mirror' = removeSessionFromRedis(mirror, id, rok)
              /\ endedBy' = IF id \in DOMAIN sessions
                            THEN [endedBy EXCEPT ![id] = "remove"] ELSE endedBy
              /\ removing' = removing \cup
                     {[id |-> id, found |-> id \in DOMAIN sessions,
                       served |-> redis = "up" /\ rok, answered |-> rok]}
              /\ last' = NoLast
              /\ strays' = removeSession_timersLeft(strays, sessions, id)
       ELSE /\ last' = Ev("removeSession", id)
            /\ UNCHANGED <<sessions, mirror, endedBy, removing, strays>>
    /\ unchangedByStore

\* SessionStore.removeSession: the answer to del (an error is swallowed by
\* removeSessionFromRedis) and the return of true; last.ok is FALSE when
\* the await of removeSessionFromRedis throws instead
sessionStore_removeSession_Return ==
    /\ \E r \in removing :
         /\ removing' = removing \ {r}
         /\ last' = [Ev("removeSession", r.id) EXCEPT
                       !.ok = ~removeSessionFromRedis_throws(r.answered),
                       !.active = r.found, !.served = r.served]
    /\ UNCHANGED <<sessions, mirror, endedBy, strays>>
    /\ unchangedByStore

\* ---- the system -----------------------------------------------------------
Next ==
    \/ Tick
    \/ \E c \in Calls : createSession(c)
    \/ \E s \in Stops : stopSession(s)
    \/ \E id \in Ids : AutoRemove(id)
    \/ \E id \in Targets, extraMs \in Extras : extendSession(id, extraMs)
    \/ \E id \in Ids : TimerFire(id)
    \/ CleanupExpiredSessions_Start
    \/ CleanupExpiredSessions_Next

Spec == Init /\ [][Next]_vars

\* The registry with its clock, timers and sweep, fed by createSession and
\* extendSession only: the behaviours in which nobody calls stopSession.
NextRegistry ==
    \/ Tick
    \/ \E c \in Calls : createSession(c)
    \/ \E id \in Targets, extraMs \in Extras : extendSession(id, extraMs)
    \/ \E id \in Ids : TimerFire(id)
    \/ CleanupExpiredSessions_Start
    \/ CleanupExpiredSessions_Next

SpecRegistry == Init /\ [][NextRegistry]_vars

\* The registry as above, with requests coming in through the proxy.
NextResolve ==
    \/ NextRegistry
    \/ \E id \in Targets : proxyToBrowser(id)

SpecResolve == Init /\ [][NextResolve]_vars

\* A process with persistence enabled that is told to shut down while it
\* still serves createSession calls.
NextShutdown ==
    \/ Tick
    \/ \E c \in Calls : createSession(c)
    \/ InitializeRedis
    \/ \E id \in Ids : TimerFire(id)
    \/ shutdownSessionManager

SpecShutdown == InitRestart /\ [][NextShutdown]_vars

\* A restarted process with persistence enabled: the load from the mirror
\* with the clock, the key expiry of Redis and the sweep.
NextRestart ==
    \/ Tick
    \/ InitializeRedis
    \/ LoadSessions_Keys
    \/ LoadSessions_Get
    \/ \E id \in Ids : RedisExpire(id)
    \/ CleanupExpiredSessions_Start
    \/ CleanupExpiredSessions_Next

SpecRestart == InitRestart /\ [][NextRestart]_vars

\* The same process with a clock that the sweep keeps up with.
NextOnTime ==
    \/ TickOnTime
    \/ InitializeRedis
    \/ LoadSessions_Keys
    \/ LoadSessions_Get
    \/ \E id \in Ids : RedisExpire(id)
    \/ \E id \in Targets, extraMs \in Extras : extendSession(id, extraMs)
    \/ \E id \in Ids : TimerFire(id)
    \/ CleanupExpiredSessions_Start
    \/ CleanupExpiredSessions_Next

SpecOnTime == InitRestart /\ [][NextOnTime]_vars

\* The runtime and the registry with the orphan sweep run again and again:
\* containers are left behind by failed creates and by expiry, end on
\* their own, and are removed by the runtime or by the sweep.
NextOrphans ==
    \/ Tick
    \/ \E c \in Calls : createSession(c)
    \/ \E id \in Ids : TimerFire(id)
    \/ \E id \in Ids : ContainerExit(id)
    \/ \E id \in Ids : ContainerDead(id)
    \/ \E id \in Ids : AutoRemove(id)
    \/ cleanupOrphanedContainers

SpecOrphans == Init /\ [][NextOrphans]_vars

\* The same with the sweep kept running: whenever it is not running it is
\* called again, and the runtime does not fail its requests for ever.
SpecOrphansFair ==
    /\ SpecOrphans
    /\ WF_vars(cleanupOrphanedContainers_Call)
    /\ SF_vars(cleanupOrphanedContainers_List(TRUE))
    /\ SF_vars(cleanupOrphanedContainers_Remove(TRUE))

\* The process behind its HTTP API: sessions are stopped and asked for
\* through the handlers.
NextHttp ==
    \/ Tick
    \/ \E c \in Calls : createSession(c)
    \/ \E s \in Stops : stopSessionHandler(s)
    \/ \E id \in Targets : getRemainingTimeHandler(id)
    \/ \E id \in Ids : AutoRemove(id)
    \/ \E id \in Ids : TimerFire(id)
    \/ CleanupExpiredSessions_Start
    \/ CleanupExpiredSessions_Next

SpecHttp == Init /\ [][NextHttp]_vars

\* The life of the sessions of a restarted process with persistence enabled:
\* createSession, extendSession, the timers, the sweep and the load.
NextLife ==
    \/ Tick
    \/ \E c \in Calls : createSession(c)
    \/ InitializeRedis
    \/ LoadSessions_Keys
    \/ LoadSessions_Get
    \/ \E id \in Targets, extraMs \in Extras : extendSession(id, extraMs)
    \/ \E id \in Ids : TimerFire(id)
    \/ \E id \in Ids : StrayFire(id)
    \/ CleanupExpiredSessions_Start
    \/ CleanupExpiredSessions_Next

SpecLife == InitRestart /\ [][NextLife]_vars

\* The registry of a process with persistence enabled, its methods called
\* directly with any id, next to its timers.  The process has started over
\* an empty Redis: the connection is up and the load has found no key.
InitStore ==
    /\ now = 0
    /\ maxSessions \in 1..MaxCeiling
    /\ containers = [i \in Ids |-> "none"]
    /\ sessions = << >>
    /\ cpc = [c \in Calls |-> "idle"]
    /\ cattempt = [c \in Calls |-> 0]
    /\ spc = [s \in Stoppers |-> "idle"]
    /\ starget = [s \in Stoppers |-> NoId]
    /\ teardowns = [i \in Ids |-> 0]
    /\ faulted = {}
    /\ sweeping = {}
    /\ endedBy = [i \in Ids |-> "none"]
    /\ last = NoLast
    /\ raced = {}
    /\ redis = "up"
    /\ mirror = << >>
    /\ restore = [NoRestore EXCEPT !.pc = "done"]
    /\ shutdown = NoShutdown
    /\ cleanupInterval = TRUE
    /\ removing = {}
    /\ orphans = NoOrphans
    /\ strays = {}
    /\ exited = FALSE

NextStore ==
    \/ Tick
    \/ \E id \in Ids, durationMs \in Durations :
          sessionStore_createSession(id, id, durationMs, UserOf(id))
    \/ \E id \in Ids : sessionStore_removeSession_Call(id)
    \/ sessionStore_removeSession_Return
    \/ \E id \in Ids : TimerFire(id)
    \/ \E id \in Ids : StrayFire(id)

SpecStore == InitStore /\ [][NextStore]_vars

\* A process with persistence enabled and Redis connected from the start:
\* every createSession and extendSession sends its write to the mirror.
NextPersist ==
    \/ Tick
    \/ \E c \in Calls : createSession(c)
    \/ \E id \in Targets, extraMs \in Extras : extendSession(id, extraMs)
    \/ \E id \in Ids : TimerFire(id)
    \/ \E id \in Ids : RedisExpire(id)
    \/ CleanupExpiredSessions_Start
    \/ CleanupExpiredSessions_Next

SpecPersist == InitStore /\ [][NextPersist]_vars

\* A process with persistence enabled that is told to shut down and gets no
\* new createSession call from then on: the calls that are in flight go on.
createSession_BeforeShutdown(c) ==
    \/ shutdown.pc = "idle" /\ CreateSession_Admit(c)
    \/ StartContainer_Capacity(c)
    \/ EnsureImageExists(c)
    \/ CreateContainer(c)
    \/ StartContainerWithRetry(c)
    \/ CreateSession_Register(c)

NextExit ==
    \/ Tick
    \/ \E c \in Calls : createSession_BeforeShutdown(c)
    \/ \E id \in Ids : TimerFire(id)
    \/ shutdownSessionManager

SpecExit == InitStore /\ [][NextExit]_vars

\* The server process until a signal ends it: nothing runs after
\* process.exit.
NextSignal ==
    \/ ~exited /\ Tick
    \/ ~exited /\ \E c \in Calls : createSession(c)
    \/ ~exited /\ \E id \in Targets, extraMs \in Extras : extendSession(id, extraMs)
    \/ ~exited /\ \E id \in Ids : TimerFire(id)
    \/ Signal

SpecSignal == Init /\ [][NextSignal]_vars

\* A caller that awaits each createSession before it makes the next (as the
\* tests do): a call is made only when no other is between its entry and
\* its return.  Sessions end by their timers.
createSession_Awaited(c) ==
    \/ (\A d \in Calls : cpc[d] \notin InFlightCreate) /\ CreateSession_Admit(c)
    \/ StartContainer_Capacity(c)
    \/ EnsureImageExists(c)
    \/ CreateContainer(c)
    \/ StartContainerWithRetry(c)
    \/ CreateSession_Register(c)

NextSerial ==
    \/ Tick
    \/ \E c \in Calls : createSession_Awaited(c)
    \/ \E id \in Targets, extraMs \in Extras : extendSession(id, extraMs)
    \/ \E id \in Ids : TimerFire(id)

SpecSerial == Init /\ [][NextSerial]_vars

\* A process started with persistence enabled, from the moment its
\* constructor has returned: this.redis is set and redis.connect() is still
\* awaited.  The connection may fail (this.redis = null from then on), and
\* so may every request sent over it.  The registry's removeSession is
\* called directly next to the awaited createSession calls; the load that
\* follows a connection (SpecRestart, SpecLife) is not part of it.
InitConnecting ==
    /\ now = 0
    /\ maxSessions \in 1..MaxCeiling
    /\ containers = [i \in Ids |-> "none"]
    /\ sessions = << >>
    /\ cpc = [c \in Calls |-> "idle"]
    /\ cattempt = [c \in Calls |-> 0]
    /\ spc = [s \in Stoppers |-> "idle"]
    /\ starget = [s \in Stoppers |-> NoId]
    /\ teardowns = [i \in Ids |-> 0]
    /\ faulted = {}
    /\ sweeping = {}
    /\ endedBy = [i \in Ids |-> "none"]
    /\ last = NoLast
    /\ raced = {}
    /\ redis = "up"
    /\ mirror = << >>
    /\ restore = [NoRestore EXCEPT !.pc = "connect"]
    /\ shutdown = NoShutdown
    /\ cleanupInterval = TRUE
    /\ removing = {}
    /\ orphans = NoOrphans
    /\ strays = {}
    /\ exited = FALSE

NextMirror ==
    \/ Tick
    \/ \E c \in Calls : createSession_Awaited(c)
    \/ \E id \in Targets, extraMs \in Extras : extendSession(id, extraMs)
    \/ \E id \in Ids : sessionStore_removeSession_Call(id)
    \/ sessionStore_removeSession_Return
    \/ \E id \in Ids : TimerFire(id)
    \/ InitializeRedis

SpecMirror == InitConnecting /\ [][NextMirror]_vars

\* ---- what the claims need to name ------------------------------------------
ByExpiry == {"timer", "sweep"}

\* a stopSession(id) call is between its first runtime request and its return
TeardownInFlight(id) ==
    \E s \in Stops : starget[s] = id /\ spc[s] \in {"stop", "remove"}

\* the createSession call that provisions id has not returned yet
CreateInFlight(id) == cpc[id] \in InFlightCreate

\* stopSession was called for id (the call may still be running)
StopCalls(id) == {s \in Stops : spc[s] # "idle" /\ starget[s] = id}

\* id is or was a registered session
WasSession(id) == id \in Ids /\ (id \in DOMAIN sessions \/ endedBy[id] # "none")

\* nothing but createSession calls has happened
OnlyCreates ==
    /\ \A s \in Stops : spc[s] = "idle"
    /\ \A i \in Ids : endedBy[i] = "none"

\* ---- C1 --------------------------------------------------------------------
\* C1: at every moment the createSession calls that are admitted and still
\* provisioning (Pending) plus the sessions in the registry (Active) are at
\* most maxSessions.
C1_CeilingNeverExceeded ==
    Cardinality(Pending) + getActiveSessionsCount(sessions) <= maxSessions

\* ---- C2 --------------------------------------------------------------------
\* C2: with a ceiling of 1 and an empty registry, of two createSession calls
\* that have both returned (neither on a runtime failure) exactly one
\* returned a session and the other the capacity error: never both a
\* session, never both an error.
C2_ExactlyOneOfTwoAdmitted ==
    \A c1, c2 \in Calls :
        ( /\ c1 # c2
          /\ maxSessions = 1
          /\ OnlyCreates
          /\ \A c \in Calls \ {c1, c2} : cpc[c] = "idle"
          /\ cpc[c1] \in {"ok", "capacity"}
          /\ cpc[c2] \in {"ok", "capacity"} )
        => {cpc[c1], cpc[c2]} = {"ok", "capacity"}

\* ---- C3 --------------------------------------------------------------------
\* C3: when the expiry timer or the periodic sweep has reclaimed a session,
\* its container has gone through the teardown of a manual stop: a stop or
\* remove request for it has been sent to the runtime, or it is gone.
C3_ExpiryTearsDownContainer ==
    \A id \in Ids :
        endedBy[id] \in ByExpiry => teardowns[id] > 0 \/ containers[id] = "gone"

\* ---- C4 --------------------------------------------------------------------
\* C4: outside an in-flight create or teardown of id, id is in the registry
\* exactly when its container has been provisioned (started) and not torn
\* down.
C4_RegistryIffLiveContainer ==
    \A id \in Ids :
        ~CreateInFlight(id) /\ ~TeardownInFlight(id)
        => (id \in DOMAIN sessions <=> containers[id] = "running")

\* ---- C5 --------------------------------------------------------------------
\* C5: when stopSession(id) returns and it is the second call for that
\* session (both calls have returned, the runtime failed no request of
\* either), it returns true, and the two calls together have sent the
\* runtime exactly one teardown.
C5_SecondStopSucceeds ==
    ( /\ last.op = "stop"
      /\ WasSession(last.id)
      /\ last.id \notin faulted
      /\ Cardinality(StopCalls(last.id)) = 2
      /\ \A s \in StopCalls(last.id) : spc[s] = "done" )
    => last.ok /\ teardowns[last.id] = 1

\* ---- C6 --------------------------------------------------------------------
\* C6: a createSession call that has failed leaves no registry entry and no
\* container behind: what it created has been torn down.
C6_FailedCreateLeavesNothing ==
    \A c \in Calls :
        cpc[c] = "failed"
        => c \notin DOMAIN sessions /\ containers[c] \in {"none", "gone"}

\* ---- C7 --------------------------------------------------------------------
\* C7: a session reclaimed by expiry has released its slot: no admission
\* check that rejects a createSession counts a session that the timer or the
\* sweep has reclaimed.
C7_ExpiredSessionNotCounted ==
    last.op = "capacity"
    => \A i \in last.counted : endedBy[i] \notin ByExpiry

\* ---- C8 --------------------------------------------------------------------
\* C8: extendSession(id, extraMs) with extraMs > 0 on an active session
\* returns true and leaves expiresAt at the old expiresAt plus extraMs,
\* which is strictly later than before.
C8_ExtendActiveAddsExtra ==
    (last.op = "extend" /\ last.active /\ last.extra > 0)
    => /\ last.ok
       /\ last.id \in DOMAIN sessions
       /\ sessions[last.id].expiresAt = last.old + last.extra
       /\ sessions[last.id].expiresAt > last.old

C8_Witness ==
    /\ last.op = "extend"
    /\ last.active
    /\ last.ok
    /\ last.extra > 1
    /\ sessions[last.id].expiresAt > now + last.extra

\* ---- C9 --------------------------------------------------------------------
\* C9: extendSession on an id that is not active (absent, or present with
\* expiresAt passed) does not succeed and leaves expiresAt as it was.
C9_ExtendInactiveChangesNothing ==
    (last.op = "extend" /\ ~last.active)
    => /\ ~last.ok
       /\ last.id \in DOMAIN sessions => sessions[last.id].expiresAt = last.old

\* ---- C10 -------------------------------------------------------------------
\* C10: while the runtime teardown of a stopSession(id) is in flight, no
\* extendSession(id) returns success.
C10_NoExtendDuringTeardown ==
    ~(last.op = "extend" /\ last.ok /\ TeardownInFlight(last.id))

\* ---- C11 -------------------------------------------------------------------
\* C11: a stopSession(id), the only one for id, during which the expiry
\* timer of id fired, and whose teardown of the container succeeded,
\* returns true.
C11_StopSucceedsWhenTimerWins ==
    ( /\ last.op = "stop"
      /\ last.id \in raced
      /\ Cardinality(StopCalls(last.id)) = 1
      /\ last.containerStopped )
    => last.ok

\* ---- C13 -------------------------------------------------------------------
C13_AfterCreate ==
    /\ last.op = "created"
          => getRemainingTime(sessions, last.id, now) \in 1..last.extra
    /\ \A id \in DOMAIN sessions :
          sessions[id].expiresAt > now => getRemainingTime(sessions, id, now) > 0

C13_AfterStop ==
    \A id \in Ids :
        (\E s \in Stops : starget[s] = id /\ spc[s] = "done")
        => /\ getRemainingTime(sessions, id, now) = 0
           /\ getSessionHostPort(sessions, id) = 0

C13_NeverGrows ==
    \A id \in (DOMAIN sessions) \cap (DOMAIN sessions') :
        sessions'[id].expiresAt = sessions[id].expiresAt
        => getRemainingTime(sessions', id, now') <= getRemainingTime(sessions, id, now)

C14_RemainingTimeNeverNegative ==
    \A id \in Ids \cup {NoId} :
        LET r == getRemainingTime(sessions, id, now) IN
        /\ r >= 0
        /\ id \notin DOMAIN sessions => r = 0
        /\ id \in DOMAIN sessions =>
              /\ sessions[id].expiresAt <= now => r = 0
              /\ sessions[id].expiresAt > now => r = sessions[id].expiresAt - now

\* a session is still in the registry after its expiresAt has passed
C14_Witness ==
    \E id \in DOMAIN sessions :
        sessions[id].expiresAt < now /\ getRemainingTime(sessions, id, now) = 0

\* ---- C17 -------------------------------------------------------------------
\* C17: provisioning attempts start at most 3 times: no call ever is at a
\* 4th attempt; a start that succeeds (on attempt 1, 2 or 3) leaves the
\* call's one container running and the call going on to register the
\* session; the start step fails the call only when attempt 3 has failed.
C17_StartAttemptedAtMostThrice ==
    /\ \A c \in Calls : cattempt[c] <= 3
    /\ last.op = "started" =>
          /\ last.extra \in 1..3
          /\ last.ok => containers[last.id] = "running" /\ cpc[last.id] = "port"
          /\ ~last.ok => /\ last.extra = 3
                         /\ cpc[last.id] = "failed"
                         /\ containers[last.id] = "created"

\* start failed on attempts 1 and 2 and has just succeeded on attempt 3
C17_Witness ==
    /\ last.op = "started"
    /\ last.ok
    /\ last.extra = 3
    /\ containers[last.id] = "running"

\* ---- C18 -------------------------------------------------------------------
\* C18: stopContainer on a container that is already gone from the runtime
\* when the call ends (gone before the call, or removed by the runtime
\* between the stop and the remove step), the runtime having failed no
\* request it could serve, returns true.
C18_TerminateGoneIsSuccess ==
    ( /\ last.op = "stop"
      /\ last.id \in Ids
      /\ containers[last.id] = "gone"
      /\ last.id \notin faulted )
    => last.containerStopped

C16_RestoredTimerArmed ==
    (last.op = "load" /\ last.ok) => sessions[last.id].timer

\* ---- C19 -------------------------------------------------------------------
\* C19: resolve(id) is the endpoint recorded for id, and none (0) when id has
\* no registry entry; the proxy forwards a request for id to that recorded
\* endpoint and to no other, and answers 404 when there is no entry or the
\* recorded endpoint is 0.
C19_ProxyOnlyToRecordedEndpoint ==
    /\ \A id \in Ids \cup {NoId} :
          getSessionHostPort(sessions, id) =
              IF id \in DOMAIN sessions THEN sessions[id].hostPort ELSE 0
    /\ last.op = "proxy" =>
          IF last.id \in DOMAIN sessions /\ sessions[last.id].hostPort # 0
          THEN last.ok /\ last.extra = sessions[last.id].hostPort
          ELSE ~last.ok /\ last.extra = 0

\* a request for a reclaimed session is answered 404 while another session
\* with an endpoint is registered
C19_Witness ==
    /\ last.op = "proxy"
    /\ ~last.ok
    /\ last.id \in Ids
    /\ last.id \notin DOMAIN sessions
    /\ \E i \in DOMAIN sessions : sessions[i].hostPort # 0

\* ---- C12 -------------------------------------------------------------------
\* C12: a session for which no stop was issued and whose expiresAt lies one
\* sweep interval or more in the past is unreachable: getRemainingTime(id)
\* is 0 and resolve(id) gives none, with or without an armed timer.
C12_ExpiredUnreachableWithinSweep ==
    \A id \in DOMAIN sessions :
        (StopCalls(id) = {} /\ sessions[id].expiresAt + SweepEvery <= now)
        => /\ getRemainingTime(sessions, id, now) = 0
           /\ getSessionHostPort(sessions, id) = 0

\* the load is over, a sweep is due and the sweep has reclaimed a session
C12_Witness ==
    /\ restore.pc = "done"
    /\ SweepDue(now)
    /\ \E id \in Ids :
          /\ endedBy[id] = "sweep"
          /\ getRemainingTime(sessions, id, now) = 0
          /\ getSessionHostPort(sessions, id) = 0

\* ---- C20 -------------------------------------------------------------------
\* C20: when SessionManager.shutdown returns, a stopSession has been made
\* for every session of the registry it found, the registry is empty, and
\* no expiry timer and no sweep interval is armed.
C20_ShutdownLeavesNothingArmed ==
    last.op = "shutdown"
    => /\ sessions = << >>
       /\ ~cleanupInterval
       /\ shutdown.queue = {}

\* ---- C23 -------------------------------------------------------------------
\* C23: the registry's createSession on an id that has an entry fails and
\* leaves the entry as it was: it never returns a session for such an id
\* and never writes over the entry.
C23_DuplicateCreateRejected ==
    (last.op = "createSession" /\ last.active)
    => /\ ~last.ok
       /\ sessions[last.id].expiresAt = last.old

\* ---- C24 -------------------------------------------------------------------
\* a removeSession call that finds the entry deletes it from the registry
\* and, when Redis serves its del, from the mirror
C24_FirstDeletes ==
    \A r \in removing' \ removing :
        /\ r.found
        /\ r.id \in DOMAIN sessions
        /\ r.id \notin DOMAIN sessions'
        /\ r.served => r.id \notin DOMAIN mirror'

\* a removeSession call that returns false found no entry and changed nothing
C24_LaterChangesNothing ==
    (last'.op = "removeSession" /\ ~last'.ok)
    => /\ last'.id \notin DOMAIN sessions
       /\ sessions' = sessions
       /\ mirror' = mirror
       /\ removing' = removing

C26_MirrorWrittenBeforeReturn ==
    redis = "up" =>
       /\ (last.op = "createSession" \/ (last.op = "extend" /\ last.ok))
            => /\ ~last.pending
               /\ last.id \in DOMAIN mirror
               /\ mirror[last.id].expiresAt = sessions[last.id].expiresAt
       /\ (last.op = "removeSession" /\ last.ok)
            => last.id \notin DOMAIN mirror

\* ---- C25 -------------------------------------------------------------------
\* no step takes the expiresAt of a session that stays in the registry back
C25_NoStepBack ==
    \A id \in (DOMAIN sessions) \cap (DOMAIN sessions') :
        sessions'[id].expiresAt >= sessions[id].expiresAt

C27_NoPortStillCreated ==
    /\ last.op = "createFailed" => ~last.served
    /\ (last.op = "created" /\ last.hostPort = 0)
          => /\ last.ok
             /\ cpc[last.id] = "ok"
             /\ last.id \in DOMAIN sessions
             /\ sessions[last.id].hostPort = 0
             /\ sessions[last.id].timer
             /\ getSessionHostPort(sessions, last.id) = 0

\* a session has just been created without a host port
C27_Witness ==
    /\ last.op = "created"
    /\ last.hostPort = 0
    /\ last.id \in DOMAIN sessions
    /\ sessions[last.id].timer
    /\ getRemainingTime(sessions, last.id, now) > 0

\* ---- C30 -------------------------------------------------------------------
\* the steps with which a createSession call throws
C30_Rejected == last.op = "capacity"
C30_Failed == last.op = "createFailed" \/ (last.op = "started" /\ ~last.ok)

\* C30: when start-session fails, a rejection by one of the limit checks is
\* answered 429 and a failure of the runtime 503 or 500; neither is answered
\* 404 or with the 201 of a success.
C30_StartFailuresTold ==
    /\ C30_Rejected => last.status = 429 /\ last.error = CapacityError
    /\ C30_Failed => last.status \in {503, 500} /\ last.error \in RuntimeErrors
    /\ (C30_Rejected \/ C30_Failed) => last.status \notin {404, 201, 200}
    /\ last.status = 201 <=> last.op = "created"

\* a limit check has just rejected a call, counting containers that have
\* no session in the registry
C30_Witness ==
    /\ C30_Rejected
    /\ last.status = 429
    /\ last.counted # {}
    /\ last.counted \cap DOMAIN sessions = {}

C29_RemainingTimeAnswer ==
    last.op = "remaining-time"
    => IF last.id \in DOMAIN sessions /\ sessions[last.id].expiresAt > now
       THEN /\ last.status = 200
            /\ last.success
            /\ last.extra > 0
            /\ last.extra = sessions[last.id].expiresAt - now
       ELSE /\ last.status = 404
            /\ ~last.success
            /\ last.error = "Session not found or already expired"
            /\ last.extra = 0

\* the handler has answered 404 for a session that is still in the registry
\* after its expiresAt
C29_Witness ==
    /\ last.op = "remaining-time"
    /\ last.status = 404
    /\ last.id \in DOMAIN sessions
    /\ sessions[last.id].expiresAt <= now

\* ---- C21 -------------------------------------------------------------------
\* the containers of the sweep's listing that were exited or dead in it
C21_Terminal ==
    {i \in DOMAIN orphans.listed : orphans.listed[i] \in {"exited", "dead"}}

\* C21: the orphan sweep sends a remove for the containers that its listing
\* shows as exited or dead and for no other, so never for one it shows as
\* running; its counter is the number of containers whose remove was
\* served, and those are gone; when it returns it has sent a remove for
\* every exited or dead container of the listing, whether or not an
\* earlier remove failed, and returns that counter.
C21_SweepRemovesExactlyTerminal ==
    /\ orphans.tried \subseteq C21_Terminal
    /\ orphans.cleaned \subseteq orphans.tried
    /\ \A i \in orphans.cleaned : containers[i] = "gone"
    /\ orphans.cleanedCount = Cardinality(orphans.cleaned)
    /\ last.op = "cleanup"
          => /\ orphans.tried = C21_Terminal
             /\ last.extra = Cardinality(orphans.cleaned)

\* a sweep has returned 1: it removed an exited container and left alone
\* the one that was running in its listing, which still runs
C21_Witness ==
    /\ last.op = "cleanup"
    /\ last.extra = 1
    /\ \E i \in orphans.cleaned : orphans.listed[i] = "exited"
    /\ \E j \in DOMAIN orphans.listed :
          orphans.listed[j] = "running" /\ containers[j] = "running"

\* ---- C22 -------------------------------------------------------------------
\* a container that the runtime has, with no entry in the registry and no
\* createSession call still at work on it
Orphan(id) == Exists(id) /\ id \notin DOMAIN sessions /\ ~CreateInFlight(id)

\* C22: with the orphan sweep kept running, every container that is left
\* without a registry entry is eventually gone from the runtime.
C22_OrphansEventuallyRemoved ==
    \A id \in Ids : Orphan(id) ~> ~Exists(id)

\* ---- C31 -------------------------------------------------------------------
\* a createSession call is made while the registry holds maxSessions
\* sessions: it ends at once with the limit error, and neither the runtime
\* nor the registry has changed
C31_FullRejects ==
    \A c \in Calls :
       (cpc[c] = "idle" /\ cpc'[c] # "idle"
          /\ getActiveSessionsCount(sessions) >= maxSessions)
       => /\ cpc'[c] = "capacity"
          /\ last'.error = CapacityError
          /\ UNCHANGED <<containers, sessions, mirror>>

\* C31: a createSession made with no other in flight while the registry
\* holds maxSessions sessions fails with the limit error and changes
\* neither the runtime nor the registry; made while the registry holds
\* fewer, it is never turned down for the limit.
C31_AdmitsBelowCeiling ==
    /\ [][C31_FullRejects]_vars
    /\ [](last.op = "capacity" => getActiveSessionsCount(sessions) >= maxSessions)

\* ---- C32 -------------------------------------------------------------------
\* the armed expiry timers whose callback removes id
ArmedTimers(id) == {timer \in strays : timer.id = id}

\* how many there are, the one the entry holds included
ArmedTimersCount(id) ==
    Cardinality(TimerOf(sessions, id)) + Cardinality(ArmedTimers(id))

C34_ExtendFrame ==
    last'.op = "extend"
    => /\ DOMAIN sessions' = DOMAIN sessions
       /\ \A other \in DOMAIN sessions \ {last'.id} : sessions'[other] = sessions[other]
       /\ last'.id \in DOMAIN sessions
            => /\ sessions'[last'.id].containerId = sessions[last'.id].containerId
               /\ sessions'[last'.id].hostPort = sessions[last'.id].hostPort
               /\ sessions'[last'.id].userId = sessions[last'.id].userId
               /\ sessions'[last'.id].createdBy = sessions[last'.id].createdBy
       /\ UNCHANGED <<strays, containers>>

\* C34: extendSession(id) changes nothing but the expiresAt and the timer of
\* the session id: its containerId, hostPort, owner and creation metadata
\* stay as they were, and so does every other session and its timer.
C34_ExtendChangesOnlyExpiry == [][C34_ExtendFrame]_vars

\* a session has just been extended next to another one in the registry
C34_Witness ==
    /\ last.op = "extend"
    /\ last.ok
    /\ Cardinality(DOMAIN sessions) = 2
    /\ sessions[last.id].expiresAt = last.old + last.extra
    /\ sessions[last.id].hostPort = last.id
    /\ sessions[last.id].userId = UserOf(last.id)

\* ---- C35 -------------------------------------------------------------------
\* a createSession or an extendSession has just returned having sent its
\* write to the mirror
C35_Written ==
    /\ last.op \in {"created", "extend"}
    /\ last.ok
    /\ last.pending

C37_AllOver ==
    /\ shutdown.pc = "returned"
    /\ \A c \in Calls : cpc[c] \notin InFlightCreate

\* C37: once shutdown has returned and the createSession calls that were in
\* flight have finished, every container that a createSession of this
\* process has returned and that still runs (the runtime having served the
\* teardown requests made for it) has its entry in the registry with its
\* timer armed, unless the session had expired before.
C37_NoContainerLeftByShutdown ==
    C37_AllOver
    => \A id \in Ids :
          (cpc[id] = "ok" /\ containers[id] = "running"
             /\ id \notin faulted /\ endedBy[id] \notin ByExpiry)
          => id \in DOMAIN sessions /\ sessions[id].timer

\* ---- C38 -------------------------------------------------------------------
\* C38: the process does not exit on a signal while sessions are in its
\* registry unless sessionManager.shutdown has run and returned: no
\* listener of the signal calls process.exit before that.
C38_ShutdownBeforeExit ==
    (exited /\ DOMAIN sessions # {}) => shutdown.pc = "returned"

\* ---- C39 -------------------------------------------------------------------
\* the limit check of startContainer lets call c pass
C39_Admits(c) == cpc[c] = "list" /\ cpc'[c] = "image"

\* C39: the limit check of startContainer lets no call pass while the
\* running labelled containers are maxSessions or more, a failed listing
\* included.
C39_NeverAdmitsAtCeiling ==
    [][\A c \in Calls :
          C39_Admits(c) => Cardinality(RunningContainers) < maxSessions]_vars

\* ---- C40 -------------------------------------------------------------------
\* createSession has returned: the entry is in the registry with the
\* expiry asked for and its timer armed, and the caller is answered 201
C40_Created ==
    last.op = "created"
    => /\ last.id \in DOMAIN sessions
       /\ sessions[last.id].expiresAt = now + last.extra
       /\ sessions[last.id].timer
       /\ ArmedTimersCount(last.id) = 1
       /\ last.status = 201

\* an expiry update of an entry has returned true: the entry has the new
\* expiry and one armed timer
C40_Updated ==
    (last.op = "extend" /\ last.ok)
    => /\ sessions[last.id].expiresAt = last.old + last.extra
       /\ sessions[last.id].timer
       /\ ArmedTimersCount(last.id) = 1

\* removeSession has the entry out of the registry and its timer cleared
\* from the moment it awaits its del, and returns true if it found one
C40_Removed ==
    /\ \A r \in removing : r.id \notin DOMAIN sessions /\ ArmedTimersCount(r.id) = 0
    /\ last.op = "removeSession"
         => /\ last.ok <=> last.active
            /\ last.id \notin DOMAIN sessions
            /\ ArmedTimersCount(last.id) = 0

\* C40: whatever the mirror answers (a write or a del that fails, a
\* connection that fails, or every request served), createSession, the
\* expiry update and removeSession end with the registry entry, the timer
\* and the return value of a process whose mirror is healthy or disabled.
C40_MirrorFailureChangesNothing ==
    /\ C40_Created
    /\ C40_Updated
    /\ C40_Removed

\* removeSession has returned true although Redis failed its del: the
\* record written at creation is still in the mirror, the entry is gone
C40_Witness ==
    /\ last.op = "removeSession"
    /\ last.ok
    /\ redis = "up"
    /\ ~last.served
    /\ last.id \in DOMAIN mirror
    /\ last.id \notin DOMAIN sessions

====
